---------------------------- MODULE Spec2Model ----------------------------
(***************************************************************************)
(* Model of estereo.py: the WAVE header writer and reader (crear_cabecera, *)
(* leer_cabecera) and the four conversions built on them (estereo2mono,    *)
(* mono2estereo, codEstereo, decEstereo).                                  *)
(*                                                                         *)
(* A file is a sequence of bytes (0..255).  Every struct.pack and          *)
(* struct.unpack of the source is modelled by what it does to bytes,       *)
(* including the struct.error it raises on a value out of range or on a    *)
(* buffer of the wrong length.  TLC's integers are 32-bit signed, so an    *)
(* unsigned 32-bit value that may exceed 2^31-1 is kept as two 16-bit      *)
(* halves <<alta, baja>> (the byte rate of the header, the coded words).   *)
(* The host is taken to be little-endian: the native '4sI4s' of line 19    *)
(* then lays out its 12 bytes like '<4sI4s'.                               *)
(***************************************************************************)
EXTENDS Integers, Sequences, FiniteSets, TLC

VARIABLES
    fs,        \* the files on disk: name -> sequence of bytes, or NoFile
    hist,      \* the calls the script has made so far, oldest first
    err,       \* "ok", or the exception that ended the script
    locales,   \* the sample list the last call computed before packing it
    args,      \* header spec: the arguments given to crear_cabecera
    fichero,   \* header spec: the byte stream handed to leer_cabecera
    info       \* header spec: what leer_cabecera returned or raised

vars == <<fs, hist, err, locales, args, fichero, info>>

---------------------------------------------------------------------------
(* Bounds of the model.                                                    *)

\* longest payload (bytes) appended after a header in the header spec
MaxDatos == 2
\* largest declared size (bytes) of an unknown sub-chunk
MaxChunk == 9
\* most frames in a stereo input file
MaxFrames == 2
\* most samples in the left mono input file
MaxIzq == 2
\* most samples in the right mono input file
MaxDer == 2
\* most 32-bit words in a coded input file
MaxPalabras == 1

---------------------------------------------------------------------------
(* Bytes and struct formats.                                               *)

\* the value of an info_audio field that was never assigned (lines 36-41)
None == -1

Min(a, b) == IF a < b THEN a ELSE b

RIFF == <<82, 73, 70, 70>>
WAVE == <<87, 65, 86, 69>>
FMT  == <<102, 109, 116, 32>>
DATA == <<100, 97, 116, 97>>
\* a tag the reader does not know
LIST == <<76, 73, 83, 84>>

\* struct.pack('<H', v) for 0 <= v <= 65535
pack_H(v) == <<v % 256, v \div 256>>

\* struct.unpack('<H', b)
unpack_H(b) == b[1] + 256 * b[2]

\* whether struct.pack('<h', v) accepts v
cabe_h(v) == v >= -32768 /\ v <= 32767

\* struct.pack('<h', v) for a v it accepts: the two's complement pattern
pack_h(v) == pack_H(v % 65536)

\* struct.unpack('<h', b)
unpack_h(b) == LET u == unpack_H(b) IN IF u >= 32768 THEN u - 65536 ELSE u

\* struct.pack('<I', v) of a value kept as halves <<alta, baja>>
pack_I2(w) == pack_H(w[2]) \o pack_H(w[1])

\* struct.pack('<I', v) for 0 <= v < 2^31
pack_I(v) == pack_I2(<<v \div 65536, v % 65536>>)

\* struct.unpack('<I', b) as halves <<alta, baja>>
unpack_I2(b) == <<unpack_H(SubSeq(b, 3, 4)), unpack_H(SubSeq(b, 1, 2))>>

\* struct.unpack('<I', b) as a number (the model keeps it below 2^31)
unpack_I(b) == unpack_H(SubSeq(b, 1, 2)) + 65536 * unpack_H(SubSeq(b, 3, 4))

\* struct.pack('<' + 'h' * n, *xs) of values it accepts
RECURSIVE pack_hs(_)
pack_hs(xs) == IF xs = <<>> THEN <<>> ELSE pack_h(Head(xs)) \o pack_hs(Tail(xs))

\* struct.unpack('<' + 'h' * n, b) for Len(b) = 2 * n
unpack_hs(b) == [i \in 1..(Len(b) \div 2) |-> unpack_h(SubSeq(b, 2 * i - 1, 2 * i))]

\* struct.pack('<' + 'I' * n, *ws) of words kept as halves
RECURSIVE pack_Is(_)
pack_Is(ws) == IF ws = <<>> THEN <<>> ELSE pack_I2(Head(ws)) \o pack_Is(Tail(ws))

\* struct.unpack('<' + 'I' * n, b) for Len(b) = 4 * n, as halves
unpack_Is(b) == [i \in 1..(Len(b) \div 4) |-> unpack_I2(SubSeq(b, 4 * i - 3, 4 * i))]

---------------------------------------------------------------------------
(* crear_cabecera (lines 10-23).                                           *)

\* tasa_bytes = frec_muestreo * canales * bits_muestra // 8 (line 15), in
\* 16-bit limbs: <<d2, d1, d0>> with value d2*2^32 + d1*2^16 + d0
tasa_bytes(frec, canales, bits) ==
    LET k   == canales * bits
        p0  == (frec % 65536) * k
        p1  == (frec \div 65536) * k + (p0 \div 65536)
        n2  == p1 \div 65536
        n1  == p1 % 65536
        n0  == p0 % 65536
        q1  == ((n2 % 8) * 65536 + n1)
        q0  == ((q1 % 8) * 65536 + n0)
    IN  <<n2 \div 8, q1 \div 8, q0 \div 8>>

\* bloque = canales * bits_muestra // 8 (line 16)
bloque(canales, bits) == (canales * bits) \div 8

\* tam_riff = 36 + tam_datos (line 17)
tam_riff(tam_datos) == 36 + tam_datos

\* whether every struct.pack of lines 19-22 accepts its value
cabe_cabecera(canales, frec, bits, tam_datos) ==
    /\ tasa_bytes(frec, canales, bits)[1] = 0
    /\ canales >= 0 /\ canales <= 65535
    /\ bits >= 0 /\ bits <= 65535
    /\ bloque(canales, bits) <= 65535
    /\ frec >= 0 /\ tam_datos >= 0

\* the 44 bytes lines 18-23 return when every value fits
crear_cabecera(canales, frec, bits, tam_datos) ==
    LET tasa == tasa_bytes(frec, canales, bits) IN
       RIFF \o pack_I(tam_riff(tam_datos)) \o WAVE
    \o FMT \o pack_I(16) \o pack_H(1) \o pack_H(canales)
    \o pack_I(frec) \o pack_I2(<<tasa[2], tasa[3]>>)
    \o pack_H(bloque(canales, bits)) \o pack_H(bits)
    \o DATA \o pack_I(tam_datos)

---------------------------------------------------------------------------
(* leer_cabecera (lines 25-62).                                            *)

\* info_audio as line 35 creates it
InfoNone ==
    [despl_datos |-> None, tam_datos |-> None, formato |-> None,
     canales |-> None, frec_muestreo |-> None, bits_muestra |-> None]

\* fichero.read(n) at offset pos: the bytes there are, at most n
leer(f, pos, n) == SubSeq(f, pos + 1, Min(pos + n, Len(f)))

\* a seek that pads an odd chunk to an even size, as RIFF readers often do
saltar_par(pos, tam) == pos + tam + (tam % 2)

\* fichero.seek(tam, 1) at offset pos (lines 55 and 57)
saltar(pos, tam) == pos + tam

\* line 51 with '<HHIIHH' one field short: bits_muestra read from the block
\* alignment
leer_fmt_corto(inf, d) ==
    [inf EXCEPT !.formato = unpack_H(SubSeq(d, 1, 2)),
                !.canales = unpack_H(SubSeq(d, 3, 4)),
                !.frec_muestreo = unpack_I(SubSeq(d, 5, 8)),
                !.bits_muestra = unpack_H(SubSeq(d, 13, 14))]

\* line 51: the fields of a format chunk
leer_fmt(inf, d) ==
    [inf EXCEPT !.formato = unpack_H(SubSeq(d, 1, 2)),
                !.canales = unpack_H(SubSeq(d, 3, 4)),
                !.frec_muestreo = unpack_I(SubSeq(d, 5, 8)),
                !.bits_muestra = unpack_H(SubSeq(d, 15, 16))]

\* lines 53-54: the data chunk found at offset pos, of declared size tam
leer_data(inf, pos, tam) ==
    [inf EXCEPT !.despl_datos = pos, !.tam_datos = tam]

\* the loop of lines 44-57, from offset pos
RECURSIVE escanear(_, _, _)
escanear(f, pos, inf) ==
    LET cab == leer(f, pos, 8) IN
    IF Len(cab) < 8 THEN [exc |-> "ok", info |-> inf]
    ELSE LET ident == SubSeq(cab, 1, 4)
             tam   == unpack_I(SubSeq(cab, 5, 8))
             p     == pos + 8
         IN  IF ident = FMT
             THEN LET datos_fmt == leer(f, p, tam) IN
                  IF Len(datos_fmt) < 16
                  THEN [exc |-> "struct.error: unpack", info |-> InfoNone]
                  ELSE escanear(f, p + Len(datos_fmt), leer_fmt(inf, datos_fmt))
             ELSE IF ident = DATA
             THEN escanear(f, saltar(p, tam), leer_data(inf, p, tam))
             ELSE escanear(f, saltar(p, tam), inf)

\* line 59
compatible(inf) == inf.formato = 1 /\ inf.bits_muestra \in {16, 32}

\* the whole function: [exc, info], exc = "ok" when it returns info
leer_cabecera(f) ==
    IF Len(f) < 12 THEN [exc |-> "struct.error: unpack", info |-> InfoNone]
    ELSE IF SubSeq(f, 1, 4) # RIFF \/ SubSeq(f, 9, 12) # WAVE
    THEN [exc |-> "El archivo no es un WAVE valido", info |-> InfoNone]
    ELSE LET r == escanear(f, 12, InfoNone) IN
         IF r.exc # "ok" THEN r
         ELSE IF ~compatible(r.info)
         THEN [exc |-> "Formato de audio no compatible", info |-> InfoNone]
         ELSE r

---------------------------------------------------------------------------
(* Header specification: one stream is built with crear_cabecera, followed *)
(* by its payload, possibly changed by whoever stores it, and then read    *)
(* with leer_cabecera.                                                     *)

NoFile == <<-1>>
Names == {"a", "b", "c", "d"}

\* the arguments crear_cabecera is called with
Canales == {1, 2}
Frecs == {8000, 44100, 1073741824}
Bits == {8, 16, 32}

\* n bytes of payload or chunk content: zeros, or bytes that spell the
\* header of a data chunk
contenido(n, patron) ==
    IF patron = 0 THEN [i \in 1..n |-> 0]
    ELSE SubSeq(DATA \o pack_I(1) \o <<7, 7, 7, 7, 7, 7, 7, 7>>, 1, n)

ArgsInicio ==
    [etapa |-> "inicio", canales |-> None, frec |-> None, bits |-> None,
     tam |-> None, chunk |-> None, cortado |-> None, alterado |-> None]

SinLeer == [exc |-> "sin leer", info |-> InfoNone]

\* the file system part of the state, idle in the header specification
FsVacio == [n \in Names |-> NoFile]

InitCabecera ==
    /\ args = ArgsInicio
    /\ fichero = <<>>
    /\ info = SinLeer
    /\ fs = FsVacio
    /\ hist = <<>>
    /\ err = "ok"
    /\ locales = <<>>

\* crear_cabecera(canales, frec, bits, tam) followed by tam bytes of payload;
\* a value struct.pack refuses raises struct.error and leaves no stream
CrearCabecera(canales, frec, bits, tam, patron) ==
    /\ args.etapa = "inicio"
    /\ IF cabe_cabecera(canales, frec, bits, tam)
       THEN /\ fichero' = crear_cabecera(canales, frec, bits, tam)
                            \o contenido(tam, patron)
            /\ args' = [args EXCEPT !.etapa = "creada", !.canales = canales,
                           !.frec = frec, !.bits = bits, !.tam = tam]
            /\ info' = info
       ELSE /\ fichero' = fichero
            /\ args' = [args EXCEPT !.etapa = "error", !.canales = canales,
                           !.frec = frec, !.bits = bits, !.tam = tam]
            /\ info' = [exc |-> "struct.error: pack", info |-> InfoNone]
    /\ UNCHANGED <<fs, hist, err, locales>>

\* an unknown sub-chunk of declared size s, with s bytes of content, put
\* between the format chunk (which ends at offset 36) and the data chunk
InsertarChunk(s, patron) ==
    /\ args.etapa = "creada"
    /\ args.chunk = None /\ args.cortado = None /\ args.alterado = None
    /\ fichero' = SubSeq(fichero, 1, 36) \o LIST \o pack_I(s)
                    \o contenido(s, patron)
                    \o SubSeq(fichero, 37, Len(fichero))
    /\ args' = [args EXCEPT !.chunk = s]
    /\ UNCHANGED <<info, fs, hist, err, locales>>

\* the stream cut to its first n bytes (n = 36 leaves no data chunk)
Truncar(n) ==
    /\ args.etapa = "creada"
    /\ args.cortado = None
    /\ n < Len(fichero)
    /\ fichero' = SubSeq(fichero, 1, n)
    /\ args' = [args EXCEPT !.cortado = n]
    /\ UNCHANGED <<info, fs, hist, err, locales>>

\* one byte of the stream overwritten: a marker (offsets 0 and 8), the
\* format code (offset 20) or the declared size of the format chunk (16)
Alterar(pos, byte) ==
    /\ args.etapa = "creada"
    /\ args.alterado = None /\ args.chunk = None
    /\ pos < Len(fichero)
    /\ fichero[pos + 1] # byte
    /\ fichero' = [fichero EXCEPT ![pos + 1] = byte]
    /\ args' = [args EXCEPT !.alterado = pos]
    /\ UNCHANGED <<info, fs, hist, err, locales>>

\* info = leer_cabecera(fichero)
LeerCabecera ==
    /\ args.etapa = "creada"
    /\ info' = leer_cabecera(fichero)
    /\ args' = [args EXCEPT !.etapa = "leida"]
    /\ UNCHANGED <<fichero, fs, hist, err, locales>>

NextCabecera ==
    \/ \E c \in Canales, f \in Frecs, b \in Bits, t \in 0..MaxDatos, p \in {0, 1} :
          CrearCabecera(c, f, b, t, p)
    \/ \E s \in 0..MaxChunk, p \in {0, 1} : InsertarChunk(s, p)
    \/ \E n \in {0, 11, 30, 36, 40} : Truncar(n)
    \/ \E pos \in {0, 8, 16, 20}, byte \in {0, 3} : Alterar(pos, byte)
    \/ LeerCabecera

SpecCabecera == InitCabecera /\ [][NextCabecera]_vars

---------------------------------------------------------------------------
(* The conversions (lines 64-167).  Each is a function of the bytes of its *)
(* input files to a result:                                                *)
(*   exc   "ok" or the exception raised                                    *)
(*   abre  whether open(fic_salida, 'wb') was reached                      *)
(*   bytes what was written to the output                                  *)
(*   lista the sample list computed before it was packed                   *)

Falla(e) == [exc |-> e, abre |-> FALSE, bytes |-> <<>>, lista |-> <<>>]

\* the 'with open(salida) ...: write(crear_cabecera(...)); write(datos)' that
\* ends every conversion: the file is opened (and emptied) before the header
\* is built, so a header that does not fit leaves an empty output
escribir(canales, frec, bits, lista, datos) ==
    IF cabe_cabecera(canales, frec, bits, Len(datos))
    THEN [exc |-> "ok", abre |-> TRUE, lista |-> lista,
          bytes |-> crear_cabecera(canales, frec, bits, Len(datos)) \o datos]
    ELSE [exc |-> "struct.error: pack", abre |-> TRUE, lista |-> lista, bytes |-> <<>>]

\* f.seek(despl_datos); f.read(tam_datos): raises when despl_datos is None
datos_de(f, inf) == leer(f, inf.despl_datos, inf.tam_datos)

\* whether struct.unpack('<' + c * (tam_datos // ancho), datos) accepts datos
cabe_unpack(datos, inf, ancho) == Len(datos) = ancho * (inf.tam_datos \div ancho)

\* zip(datos[::2], datos[1::2]) (lines 77 and 131)
pares(m) == [i \in 1..(Len(m) \div 2) |-> <<m[2 * i - 1], m[2 * i]>>]

\* a half sum that rounds toward zero, as int((izq + der) / 2) would
semisuma_trunc(izq, der) ==
    IF izq + der >= 0 THEN (izq + der) \div 2 ELSE -((-(izq + der)) \div 2)

\* (izq + der) // 2 (line 84)
semisuma(izq, der) == (izq + der) \div 2

\* (izq - der) // 2 (line 86)
semidif(izq, der) == (izq - der) \div 2

\* lines 79-86 for a valid canal
mezclar(ps, canal) ==
    [i \in 1..Len(ps) |->
        CASE canal = 0 -> ps[i][1]
          [] canal = 1 -> ps[i][2]
          [] canal = 2 -> semisuma(ps[i][1], ps[i][2])
          [] canal = 3 -> semidif(ps[i][1], ps[i][2])]

todas_caben(xs) == \A i \in 1..Len(xs) : cabe_h(xs[i])

estereo2mono(f, canal) ==
    LET r == leer_cabecera(f) IN
    IF r.exc # "ok" THEN Falla(r.exc)
    ELSE IF r.info.canales # 2 THEN Falla("El archivo no es estereo")
    ELSE IF r.info.despl_datos = None THEN Falla("TypeError: seek(None)")
    ELSE LET datos == datos_de(f, r.info) IN
         IF ~cabe_unpack(datos, r.info, 2) THEN Falla("struct.error: unpack")
         ELSE IF canal \notin {0, 1, 2, 3} THEN Falla("Canal no valido")
         ELSE LET mono == mezclar(pares(unpack_hs(datos)), canal) IN
              IF ~todas_caben(mono)
              THEN [Falla("struct.error: pack") EXCEPT !.lista = mono]
              ELSE escribir(1, r.info.frec_muestreo, 16, mono, pack_hs(mono))

\* lines 100-105 and 107-112: the samples of one mono input
muestras_mono(f, mensaje) ==
    LET r == leer_cabecera(f) IN
    IF r.exc # "ok" THEN [exc |-> r.exc, m |-> <<>>, frec |-> None]
    ELSE IF r.info.canales # 1 THEN [exc |-> mensaje, m |-> <<>>, frec |-> None]
    ELSE IF r.info.despl_datos = None
    THEN [exc |-> "TypeError: seek(None)", m |-> <<>>, frec |-> None]
    ELSE LET datos == datos_de(f, r.info) IN
         IF ~cabe_unpack(datos, r.info, 2)
         THEN [exc |-> "struct.error: unpack", m |-> <<>>, frec |-> None]
         ELSE [exc |-> "ok", m |-> unpack_hs(datos), frec |-> r.info.frec_muestreo]

\* a zip that pairs the channels the other way round
zip_girado(xs, ys) == [i \in 1..Min(Len(xs), Len(ys)) |-> <<ys[i], xs[i]>>]

\* a zip that pads the shorter input with silence, as zip_longest would
zip_largo(xs, ys) ==
    [i \in 1..(IF Len(xs) > Len(ys) THEN Len(xs) ELSE Len(ys)) |->
        <<IF i <= Len(xs) THEN xs[i] ELSE 0, IF i <= Len(ys) THEN ys[i] ELSE 0>>]

\* zip(datos_izq, datos_der) (line 114): as many pairs as the shorter has
zip(xs, ys) == [i \in 1..Min(Len(xs), Len(ys)) |-> <<xs[i], ys[i]>>]

\* sum(pares, ()) (line 114): the pairs laid out one after the other
aplanar(ps) == [i \in 1..(2 * Len(ps)) |-> ps[(i + 1) \div 2][2 - (i % 2)]]

mono2estereo(fi, fd) ==
    LET i == muestras_mono(fi, "El canal izquierdo no es mono") IN
    IF i.exc # "ok" THEN Falla(i.exc)
    ELSE LET d == muestras_mono(fd, "El canal derecho no es mono") IN
         IF d.exc # "ok" THEN Falla(d.exc)
         ELSE LET est == aplanar(zip(i.m, d.m)) IN
              \* struct.pack('<' + 'h' * (2 * len(datos_izq)), *est)
              IF Len(est) # 2 * Len(i.m)
              THEN [Falla("struct.error: pack") EXCEPT !.lista = est]
              ELSE escribir(2, i.frec, 16, est, pack_hs(est))

\* a coder that saturates the sum and the difference instead of wrapping
codificar_satura(l, r) ==
    LET sat(x) == IF x > 32767 THEN 32767 ELSE IF x < -32768 THEN -32768 ELSE x
    IN  <<sat(l + r) % 65536, sat(l - r) % 65536>>

\* a coder that takes the difference the other way round
codificar_girado(l, r) == <<(l + r) % 65536, (r - l) % 65536>>

\* line 132, the word as halves <<alta, baja>>:
\* ((l + r) << 16 & 0xFFFF0000) | ((l - r) & 0xFFFF)
codificar(l, r) == <<(l + r) % 65536, (l - r) % 65536>>

codEstereo(f) ==
    LET r == leer_cabecera(f) IN
    IF r.exc # "ok" THEN Falla(r.exc)
    ELSE IF r.info.canales # 2 THEN Falla("El archivo no es estereo")
    ELSE IF r.info.despl_datos = None THEN Falla("TypeError: seek(None)")
    ELSE LET datos == datos_de(f, r.info) IN
         IF ~cabe_unpack(datos, r.info, 2) THEN Falla("struct.error: unpack")
         ELSE LET ps == pares(unpack_hs(datos))
                  codificados == [k \in 1..Len(ps) |-> codificar(ps[k][1], ps[k][2])]
              IN  escribir(1, r.info.frec_muestreo, 32, codificados,
                           pack_Is(codificados))

\* the half of the word used as it is, without the signed reading
sin_signo(u) == u

\* lines 154-157: a 16-bit half of the word read as a signed sample
con_signo(u) == unpack_h(pack_H(u))

\* lines 154-159: the frame <<izq, der>> of a word <<alta, baja>>
decodificar(cod) ==
    LET suma == con_signo(cod[1])
        dif  == con_signo(cod[2])
    IN  <<(suma + dif) \div 2, (suma - dif) \div 2>>

decEstereo(f) ==
    LET r == leer_cabecera(f) IN
    IF r.exc # "ok" THEN Falla(r.exc)
    ELSE IF r.info.bits_muestra # 32
    THEN Falla("La senal no esta codificada en 32 bits")
    ELSE IF r.info.despl_datos = None THEN Falla("TypeError: seek(None)")
    ELSE LET datos == datos_de(f, r.info) IN
         IF ~cabe_unpack(datos, r.info, 4) THEN Falla("struct.error: unpack")
         ELSE LET ws == unpack_Is(datos)
                  reconstruido == aplanar([k \in 1..Len(ws) |-> decodificar(ws[k])])
              IN  IF ~todas_caben(reconstruido)
                  THEN [Falla("struct.error: pack") EXCEPT !.lista = reconstruido]
                  ELSE escribir(2, r.info.frec_muestreo, 16, reconstruido,
                                pack_hs(reconstruido))

---------------------------------------------------------------------------
(* The files a script is started on.                                       *)

\* a well-formed file: a 44-byte header and the payload it declares
fichero_wav(canales, frec, bits, datos) ==
    crear_cabecera(canales, frec, bits, Len(datos)) \o datos

\* the sequences over S of length at most n
Secs(S, n) == UNION {[1..k -> S] : k \in 0..n}

Tramas ==
    {<<4, 2>>, <<-4, -2>>, <<1, -1>>, <<-1, 0>>,
     <<30000, 30000>>, <<-32768, 32767>>, <<32767, -32768>>}
Ejemplo == <<<<4, 2>>, <<-4, -2>>, <<1, -1>>>>
MuestrasIzq == {-32768, -1, 32767}
MuestrasDer == {5, -7}
Mitades == {0, 1, 32767, 32768, 65535}

Estereos ==
    {fichero_wav(2, 44100, 16, pack_hs(aplanar(t))) :
        t \in Secs(Tramas, MaxFrames) \cup {Ejemplo}}
MonosIzq == {fichero_wav(1, 8000, 16, pack_hs(m)) : m \in Secs(MuestrasIzq, MaxIzq)}
MonosDer == {fichero_wav(1, 22050, 16, pack_hs(m)) : m \in Secs(MuestrasDer, MaxDer)}
Codificados ==
    {fichero_wav(1, 44100, 32, pack_Is(w)) :
        w \in Secs(Mitades \X Mitades, MaxPalabras)}

\* other files a script may be given: stereo with no data chunk, with a data
\* chunk of odd declared size, with fewer payload bytes than declared, with
\* half a frame at the end, with an unknown chunk before the data chunk,
\* stereo of 32 bits, and a file that is not a WAVE
Otros ==
    {SubSeq(fichero_wav(2, 44100, 16, <<>>), 1, 36),
     fichero_wav(2, 44100, 16, <<1, 0, 2>>),
     SubSeq(fichero_wav(2, 44100, 16, <<1, 0, 2, 0>>), 1, 46),
     fichero_wav(2, 44100, 16, pack_hs(<<4, 2, 9>>)),
     SubSeq(crear_cabecera(2, 44100, 16, 4), 1, 36) \o LIST \o pack_I(3)
        \o <<100, 97, 116>> \o DATA \o pack_I(4) \o pack_hs(<<-1, 0>>),
     fichero_wav(2, 44100, 32, pack_Is(<<<<0, 65535>>, <<32768, 1>>>>)),
     [i \in 1..12 |-> 0]}

Salidas == <<"c", "d">>
Modos == {0, 1, 2, 3, 4, 9}

Init ==
    /\ \/ \E f \in Estereos \cup Codificados \cup Otros :
             fs = [FsVacio EXCEPT !["a"] = f]
       \/ \E i \in MonosIzq, d \in MonosDer :
             fs = [FsVacio EXCEPT !["a"] = i, !["b"] = d]
    /\ hist = <<>>
    /\ err = "ok"
    /\ locales = <<>>
    /\ args = ArgsInicio
    /\ fichero = <<>>
    /\ info = SinLeer

\* the script gives each call a fresh output name, "c" and then "d"
libre(sal) ==
    /\ fs[sal] = NoFile
    /\ \A k \in 1..Len(Salidas) :
          Salidas[k] = sal => \A j \in 1..(k - 1) : fs[Salidas[j]] # NoFile

\* one call of the script: an exception ends the script (err), and the output
\* file exists from the moment it is opened
llamar(h, r) ==
    /\ err = "ok"
    /\ libre(h.sal)
    /\ fs' = IF r.abre THEN [fs EXCEPT ![h.sal] = r.bytes] ELSE fs
    /\ err' = r.exc
    /\ locales' = r.lista
    /\ hist' = Append(hist, h)
    /\ UNCHANGED <<args, fichero, info>>

Estereo2Mono(ent, sal, canal) ==
    /\ fs[ent] # NoFile
    /\ llamar([op |-> "estereo2mono", ent |-> ent, ent2 |-> ent, sal |-> sal,
               canal |-> canal], estereo2mono(fs[ent], canal))

Mono2Estereo(izq, der, sal) ==
    /\ fs[izq] # NoFile /\ fs[der] # NoFile
    /\ llamar([op |-> "mono2estereo", ent |-> izq, ent2 |-> der, sal |-> sal,
               canal |-> None], mono2estereo(fs[izq], fs[der]))

CodEstereo(ent, sal) ==
    /\ fs[ent] # NoFile
    /\ llamar([op |-> "codEstereo", ent |-> ent, ent2 |-> ent, sal |-> sal,
               canal |-> None], codEstereo(fs[ent]))

DecEstereo(ent, sal) ==
    /\ fs[ent] # NoFile
    /\ llamar([op |-> "decEstereo", ent |-> ent, ent2 |-> ent, sal |-> sal,
               canal |-> None], decEstereo(fs[ent]))

Next ==
    \/ \E ent \in Names, sal \in {"c", "d"}, canal \in Modos :
          Estereo2Mono(ent, sal, canal)
    \/ \E izq \in Names, der \in Names, sal \in {"c", "d"} :
          Mono2Estereo(izq, der, sal)
    \/ \E ent \in Names, sal \in {"c", "d"} : CodEstereo(ent, sal)
    \/ \E ent \in Names, sal \in {"c", "d"} : DecEstereo(ent, sal)

Spec == Init /\ [][Next]_vars

---------------------------------------------------------------------------
(* Properties of the header specification.                                 *)

Intacto == args.chunk = None /\ args.cortado = None /\ args.alterado = None

Validos ==
    /\ args.canales \in {1, 2}
    /\ args.bits \in {16, 32}
    /\ args.frec > 0
    /\ args.tam >= 0

\* what leer_cabecera is expected to return for a data chunk at offset despl
Esperada(despl) ==
    [exc |-> "ok",
     info |-> [despl_datos |-> despl, tam_datos |-> args.tam, formato |-> 1,
               canales |-> args.canales, frec_muestreo |-> args.frec,
               bits_muestra |-> args.bits]]

\* C2 as stated: for every channels in {1, 2}, positive sampleRate,
\* bitsPerSample in {16, 32} and dataLength >= 0, crear_cabecera gives a
\* header and leer_cabecera of header ++ payload returns the same fields,
\* format code 1 and payload offset 44.
C2_Original ==
    (args.etapa \in {"leida", "error"} /\ Validos /\ Intacto)
        => (args.etapa = "leida" /\ info = Esperada(44))

\* C2 amended: the round trip holds whenever the byte rate
\* sampleRate * channels * bitsPerSample / 8 fits an unsigned 32-bit field;
\* when it does not, crear_cabecera raises struct.error and builds nothing.
C2_Cabecera ==
    (Validos /\ Intacto) =>
        /\ args.etapa = "leida" => info = Esperada(44)
        /\ args.etapa = "error" <=>
              (args.etapa # "inicio" /\
               args.frec \div 65536 >= 65536 \div bloque(args.canales, args.bits))

C2_Testigo ==
    /\ args.etapa = "leida" /\ Validos /\ Intacto
    /\ args.canales = 2 /\ args.bits = 32 /\ args.tam = MaxDatos
    /\ info.info.despl_datos = 44

\* C5: an unknown sub-chunk of declared size S between the format chunk and
\* the data chunk is skipped by exactly 8 + S bytes: the parse returns payload
\* offset 44 + 8 + S and the fields of the format and data chunks, whatever
\* the unknown chunk holds.
C5_ChunkDesconocido ==
    (args.etapa = "leida" /\ Validos /\ args.chunk # None /\ args.cortado = None)
        => info = Esperada(44 + 8 + args.chunk)

C5_Testigo ==
    /\ args.etapa = "leida" /\ Validos /\ args.cortado = None
    /\ args.chunk = MaxChunk /\ args.tam > 0
    /\ info.exc = "ok" /\ info.info.despl_datos = 52 + MaxChunk

\* C8: whenever leer_cabecera returns a descriptor, every field of it is
\* populated (none is None), also for a stream with a format chunk and no
\* data chunk.
C8_Poblada ==
    (args.etapa = "leida" /\ info.exc = "ok") =>
        /\ info.info.formato # None /\ info.info.canales # None
        /\ info.info.frec_muestreo # None /\ info.info.bits_muestra # None
        /\ info.info.despl_datos # None /\ info.info.tam_datos # None

---------------------------------------------------------------------------
(* Properties of the conversions.                                          *)

Ultima == hist[Len(hist)]

\* f parses, declares canales channels of bits bits, and holds the whole
\* payload it declares, a whole number of frames
BienFormado(f, canales, bits) ==
    LET r == leer_cabecera(f) IN
    /\ r.exc = "ok"
    /\ r.info.canales = canales /\ r.info.bits_muestra = bits
    /\ r.info.despl_datos # None
    /\ Len(datos_de(f, r.info)) = r.info.tam_datos
    /\ r.info.tam_datos % (canales * (bits \div 8)) = 0

EsEstereo16(f) == BienFormado(f, 2, 16)
EsMono16(f) == BienFormado(f, 1, 16)
EsCod32(f) == BienFormado(f, 1, 32)

\* the payload of f
Carga(f) == datos_de(f, leer_cabecera(f).info)

\* the payload of f as 16-bit samples, and as frames
Muestras16(f) == unpack_hs(Carga(f))
TramasDe(f) == pares(Muestras16(f))

EnRango(t) == cabe_h(t[1] + t[2]) /\ cabe_h(t[1] - t[2])

\* C1: a stereo file whose frames all have sum and difference in
\* [-32768, 32767], coded with codEstereo and decoded with decEstereo, gives
\* a stereo file with exactly the original samples, in order.
C1_IdaYVuelta ==
    (/\ Len(hist) = 2
     /\ hist[1].op = "codEstereo" /\ hist[2].op = "decEstereo"
     /\ hist[2].ent = hist[1].sal
     /\ EsEstereo16(fs[hist[1].ent])
     /\ \A i \in 1..Len(TramasDe(fs[hist[1].ent])) :
           EnRango(TramasDe(fs[hist[1].ent])[i]))
    => /\ err = "ok"
       /\ EsEstereo16(fs[hist[2].sal])
       /\ Muestras16(fs[hist[2].sal]) = Muestras16(fs[hist[1].ent])

C1_Testigo ==
    /\ Len(hist) = 2 /\ err = "ok"
    /\ hist[1].op = "codEstereo" /\ hist[2].op = "decEstereo"
    /\ hist[2].ent = hist[1].sal
    /\ EsEstereo16(fs[hist[1].ent])
    /\ Muestras16(fs[hist[1].ent]) = <<-1, 0, -4, -2>>
    /\ Muestras16(fs[hist[2].sal]) = <<-1, 0, -4, -2>>

\* C3: two mono files L and R with the same number of samples, merged with
\* mono2estereo and split with estereo2mono, give L with canal 0 and R with
\* canal 1.
C3_UnirYSeparar ==
    (/\ Len(hist) = 2
     /\ hist[1].op = "mono2estereo" /\ hist[2].op = "estereo2mono"
     /\ hist[2].ent = hist[1].sal /\ hist[2].canal \in {0, 1}
     /\ EsMono16(fs[hist[1].ent]) /\ EsMono16(fs[hist[1].ent2])
     /\ Len(Muestras16(fs[hist[1].ent])) = Len(Muestras16(fs[hist[1].ent2])))
    => /\ err = "ok"
       /\ EsMono16(fs[hist[2].sal])
       /\ Muestras16(fs[hist[2].sal]) =
             IF hist[2].canal = 0 THEN Muestras16(fs[hist[1].ent])
             ELSE Muestras16(fs[hist[1].ent2])

C3_Testigo ==
    /\ Len(hist) = 2 /\ err = "ok"
    /\ hist[1].op = "mono2estereo" /\ hist[2].op = "estereo2mono"
    /\ hist[2].ent = hist[1].sal /\ hist[2].canal = 1
    /\ Muestras16(fs[hist[1].ent]) = <<-32768, 32767>>
    /\ Muestras16(fs[hist[1].ent2]) = <<5, -7>>
    /\ Muestras16(fs[hist[2].sal]) = <<5, -7>>

\* x / 2 rounded toward zero
Trunc2(x) == IF x >= 0 THEN x \div 2 ELSE -((-x) \div 2)

\* the last call was estereo2mono in a half-sum or half-difference mode, on a
\* well-formed stereo file
CasoC4 ==
    /\ hist # <<>>
    /\ Ultima.op = "estereo2mono" /\ Ultima.canal \in {2, 3}
    /\ EsEstereo16(fs[Ultima.ent])

\* left + right in mode 2, left - right in mode 3
Termino(t, canal) == IF canal = 2 THEN t[1] + t[2] ELSE t[1] - t[2]

\* C4 as stated: modes 2 and 3 output (left + right) / 2 and
\* (left - right) / 2 rounded toward zero, also when the sum or difference
\* is negative and odd; frames [(4,2),(-4,-2),(1,-1)] give [3,-3,0] in mode 2.
C4_Original ==
    CasoC4 =>
        LET t == TramasDe(fs[Ultima.ent]) IN
        /\ err = "ok" /\ Len(locales) = Len(t)
        /\ \A i \in 1..Len(t) : locales[i] = Trunc2(Termino(t[i], Ultima.canal))
        /\ (t = Ejemplo /\ Ultima.canal = 2) => locales = <<3, -3, 0>>

\* C4 amended: the division rounds toward minus infinity (Python's //): the
\* output m of a frame satisfies 2*m <= term <= 2*m + 1, so a negative odd
\* sum or difference gives one less than rounding toward zero would; the
\* frames [(4,2),(-4,-2),(1,-1)] still give [3,-3,0] in mode 2.
C4_DivisionPiso ==
    CasoC4 =>
        LET t == TramasDe(fs[Ultima.ent]) IN
        /\ err = "ok" /\ Len(locales) = Len(t)
        /\ \A i \in 1..Len(t) :
              LET x == Termino(t[i], Ultima.canal) IN
              /\ 2 * locales[i] <= x /\ x <= 2 * locales[i] + 1
              /\ (x < 0 /\ x % 2 = 1) => locales[i] = Trunc2(x) - 1
        /\ (t = Ejemplo /\ Ultima.canal = 2) => locales = <<3, -3, 0>>
        /\ Muestras16(fs[Ultima.sal]) = locales

C4_Testigo ==
    /\ CasoC4 /\ err = "ok" /\ Ultima.canal = 2
    /\ TramasDe(fs[Ultima.ent]) = <<<<-1, 0>>>>
    /\ locales = <<-1>>

\* C6: estereo2mono fails with the channel-mismatch error whenever the
\* descriptor's channel count is not 2, whatever the mode, and with the
\* invalid-mode error whenever the input is stereo and the mode is not 0, 1,
\* 2 or 3; in both cases the output was never opened.
C6_Errores ==
    (hist # <<>> /\ Ultima.op = "estereo2mono"
        /\ leer_cabecera(fs[Ultima.ent]).exc = "ok")
    => LET inf == leer_cabecera(fs[Ultima.ent]).info IN
       /\ inf.canales # 2 =>
             (err = "El archivo no es estereo" /\ fs[Ultima.sal] = NoFile)
       /\ (inf.canales = 2 /\ Ultima.canal \notin {0, 1, 2, 3}) =>
             (err = "Canal no valido" /\ fs[Ultima.sal] = NoFile)

\* the last call was codEstereo on a well-formed stereo file
CasoC7 ==
    /\ hist # <<>>
    /\ Ultima.op = "codEstereo"
    /\ EsEstereo16(fs[Ultima.ent])

\* C7: codEstereo emits for each frame one 32-bit word whose high half is
\* the low 16 bits of the two's complement of left + right and whose low
\* half is the low 16 bits of left - right, wrapping and never failing;
\* frame (30000, 30000) gives 0xEA600000.
C7_Palabra ==
    CasoC7 =>
        LET t == TramasDe(fs[Ultima.ent]) IN
        /\ err = "ok" /\ Len(locales) = Len(t)
        /\ \A i \in 1..Len(t) :
              /\ locales[i][1] \in 0..65535 /\ locales[i][2] \in 0..65535
              /\ (locales[i][1] - (t[i][1] + t[i][2])) % 65536 = 0
              /\ (locales[i][2] - (t[i][1] - t[i][2])) % 65536 = 0
              /\ t[i] = <<30000, 30000>> => locales[i] = <<60000, 0>>
              /\ SubSeq(Carga(fs[Ultima.sal]), 4 * i - 3, 4 * i) =
                    <<locales[i][2] % 256, locales[i][2] \div 256,
                      locales[i][1] % 256, locales[i][1] \div 256>>
        /\ EsCod32(fs[Ultima.sal])
        /\ Len(Carga(fs[Ultima.sal])) = 4 * Len(t)

C7_Testigo ==
    /\ CasoC7 /\ err = "ok"
    /\ TramasDe(fs[Ultima.ent]) = <<<<30000, 30000>>>>
    /\ Carga(fs[Ultima.sal]) = <<0, 0, 96, 234>>

\* the last call was mono2estereo on two well-formed mono files
CasoC9 ==
    /\ hist # <<>>
    /\ Ultima.op = "mono2estereo"
    /\ EsMono16(fs[Ultima.ent]) /\ EsMono16(fs[Ultima.ent2])

\* C9: mono2estereo succeeds exactly when the right input has at least as
\* many samples as the left; the output then has len(left) frames
\* (left[i], right[i]); otherwise it fails before the output is opened.
C9_Longitudes ==
    CasoC9 =>
        LET l == Muestras16(fs[Ultima.ent])
            r == Muestras16(fs[Ultima.ent2])
        IN  /\ err = "ok" <=> Len(r) >= Len(l)
            /\ err = "ok" =>
                  /\ EsEstereo16(fs[Ultima.sal])
                  /\ TramasDe(fs[Ultima.sal]) = [i \in 1..Len(l) |-> <<l[i], r[i]>>]
            /\ err # "ok" => fs[Ultima.sal] = NoFile

C9_Testigo ==
    /\ CasoC9 /\ err # "ok" /\ fs[Ultima.sal] = NoFile
    /\ Len(Muestras16(fs[Ultima.ent])) = 2
    /\ Len(Muestras16(fs[Ultima.ent2])) = 1

\* C10: the samples decEstereo rebuilds from any 32-bit word, and the
\* sample estereo2mono computes from any frame in each of its four modes,
\* lie in [-32768, 32767], so packing them as 16-bit samples never fails.
C10_Rango ==
    (/\ hist # <<>>
     /\ \/ Ultima.op = "decEstereo" /\ EsCod32(fs[Ultima.ent])
        \/ /\ Ultima.op = "estereo2mono" /\ EsEstereo16(fs[Ultima.ent])
           /\ Ultima.canal \in {0, 1, 2, 3})
    => /\ err = "ok"
       /\ todas_caben(locales)
       /\ Len(locales) = IF Ultima.op = "decEstereo"
                         THEN Len(Carga(fs[Ultima.ent])) \div 2
                         ELSE Len(Carga(fs[Ultima.ent])) \div 4
       /\ Muestras16(fs[Ultima.sal]) = locales

C10_Testigo ==
    /\ hist # <<>> /\ Ultima.op = "decEstereo" /\ err = "ok"
    /\ Carga(fs[Ultima.ent]) = pack_Is(<<<<32768, 32767>>>>)
    /\ locales = <<-1, -32768>>

=============================================================================
